---- MODULE Spec2Model ----
(***************************************************************************)
(* Model of scripts/trace.py: the trace-file command line tool (commands   *)
(* list, summary, prof-wait, prof), its symbol formatter and resolver      *)
(* wrapper, and the profile set-up done by show_profile.                   *)
(*                                                                         *)
(* Python strings are sequences of one-character strings, so that          *)
(* startswith, concatenation, '%x' / '%s' formatting and string ordering   *)
(* are computed rather than assumed.                                       *)
(***************************************************************************)
EXTENDS Integers, Sequences, FiniteSets, TLC

\* ------------------------------------------------------------------ bounds

\* longest trace file (number of records) fed to a command
MaxLen == 3
\* largest timestamp of a record [ns]
MaxTime == 1
\* longest record sequence fed to the wait profile
MaxWaitLen == 4
\* most tree nodes handed to the node filter
MaxNodes == 2

\* ----------------------------------------------------------------- strings

\* the characters in use, in ASCII order
Alphabet ==
    <<" ", ".", "0", "1", "2", "3", "4", "5", "6", "7", "8", "9", ":", "<",
      ">", "@", "A", "B", "N", "S", "_", "a", "b", "c", "d", "e", "f", "g",
      "h", "i", "j", "k", "l", "m", "n", "o", "p", "q", "r", "s", "t", "u",
      "v", "w", "x", "y", "z">>

Ord(c) == CHOOSE i \in DOMAIN Alphabet : Alphabet[i] = c

\* Python's str < str: lexicographic on the characters, a proper prefix first
RECURSIVE StrLess(_, _)
StrLess(s, t) ==
    IF t = <<>> THEN FALSE
    ELSE IF s = <<>> THEN TRUE
    ELSE IF Head(s) = Head(t) THEN StrLess(Tail(s), Tail(t))
    ELSE Ord(Head(s)) < Ord(Head(t))

\* Python's str.startswith
StartsWith(s, p) == Len(s) >= Len(p) /\ SubSeq(s, 1, Len(p)) = p

\* Python's str.endswith
EndsWith(s, p) == Len(s) >= Len(p) /\ SubSeq(s, Len(s) - Len(p) + 1, Len(s)) = p

HexDigits == <<"0", "1", "2", "3", "4", "5", "6", "7", "8", "9", "a", "b", "c", "d", "e", "f">>

\* '%x' % n for n >= 0
RECURSIVE Hex(_)
Hex(n) == IF n < 16 THEN <<HexDigits[n + 1]>> ELSE Hex(n \div 16) \o <<HexDigits[(n % 16) + 1]>>

\* '%s' % n (also '%d') for an integer n >= 0
RECURSIVE Dec(_)
Dec(n) == IF n < 10 THEN <<HexDigits[n + 1]>> ELSE Dec(n \div 10) \o <<HexDigits[(n % 10) + 1]>>

\* ------------------------------------------------------------- Python None

\* an optional integer: None is <<>>, the integer v is <<v>>
None == <<>>
Some(v) == <<v>>
Val(x) == x[1]

\* Python truth value negated: `not x` for x None or an integer
Not(x) == x = None \/ x = Some(0)

Min2(a, b) == IF a <= b THEN a ELSE b
Max2(a, b) == IF a >= b THEN a ELSE b

\* Python 2 max(x, v) with x None or an integer: None orders below every integer
PyMax(x, v) == IF x = None THEN Some(v) ELSE Some(Max2(Val(x), v))

\* ------------------------------------------------------------------- state

VARIABLES
    \* one run of the program (__main__)
    func,           \* args.func: the command chosen on the command line
    traces,         \* the records of the trace file, in file order
    pc,             \* where the run is
    reader,         \* the trace reader: "unopened", "open" or "closed"
    pos,            \* records the reader has yielded so far
    count,          \* print_summary: count
    count_per_tp,   \* print_summary: count_per_tp (keys are the tracepoints seen)
    min_time,       \* print_summary: min_time
    max_time,       \* print_summary: max_time
    out,            \* lines written to standard output
    raised,         \* the exception the command raised, NoExc if none
    status,         \* how the program ended: "running", "normal" or "error"
    \* symbol printing: symbol_printer(symbol_resolver(args), src_addr_formatter(args))
    fargs,          \* the symbol resolution options of args
    symtab,         \* what the delegate resolver answers for each address in use
    resolved,       \* src_addr the resolver returned, per address looked up
    text,           \* the text symbol_printer returned, per address printed
    \* wait profile: get_wait_profile(traces)
    wtraces,        \* the records fed to the wait profile, sorted by time
    wpos,           \* records consumed
    entries,        \* per thread, the begin events not yet matched (innermost last)
    samples,        \* the intervals yielded
    last,           \* what the last consumed record did
    \* show_profile's node filter
    min_duration,   \* args.min_duration: <<>> when not given, else its text
    node_filter,    \* the filter handed to print_profile, once show_profile built it
    nodes,          \* resident_time of the tree nodes offered to the filter
    npos,           \* nodes offered so far
    kept            \* per offered node, whether it stayed in the tree

mainVars == <<func, traces, pc, reader, pos, count, count_per_tp, min_time, max_time,
              out, raised, status>>
fmtVars == <<fargs, symtab, resolved, text>>
waitVars == <<wtraces, wpos, entries, samples, last>>
filtVars == <<min_duration, node_filter, nodes, npos, kept>>
vars == <<mainVars, fmtVars, waitVars, filtVars>>

\* ---------------------------------------------------------------- __main__

Commands == {"list", "summary", "prof-wait", "prof"}

\* the tracepoints of the traced system, by name
TpNames == {<<"a">>, <<"a", "b">>, <<"b">>}

Records == [tp : TpNames, time : 0..MaxTime]

RECURSIVE SeqsUpTo(_, _)
SeqsUpTo(S, n) ==
    IF n = 0 THEN {<<>>}
    ELSE LET shorter == SeqsUpTo(S, n - 1)
         IN  shorter \cup {Append(s, x) : s \in {q \in shorter : Len(q) = n - 1}, x \in S}

NoExc == [type |-> "none", errno |-> "none"]
IOError(e) == [type |-> "IOError", errno |-> e]
ValueError == [type |-> "ValueError", errno |-> "none"]

EmptyDict == [k \in {} |-> 0]

\* the idle values of the state the program run does not use
FmtIdle ==
    /\ fargs = [no_resolve |-> FALSE, show_file_name |-> FALSE,
                show_line_number |-> FALSE, show_address |-> FALSE]
    /\ symtab = EmptyDict /\ resolved = EmptyDict /\ text = EmptyDict
WaitIdle ==
    /\ wtraces = <<>> /\ wpos = 0 /\ entries = EmptyDict /\ samples = <<>>
    /\ last = [seen |-> FALSE]
FiltIdle ==
    /\ min_duration = <<>> /\ node_filter = [state |-> "unset"] /\ nodes = <<>> /\ npos = 0
    /\ kept = <<>>
MainIdle ==
    /\ func = "none" /\ traces = <<>> /\ pc = "idle" /\ reader = "unopened" /\ pos = 0
    /\ count = 0 /\ count_per_tp = EmptyDict /\ min_time = None /\ max_time = None
    /\ out = <<>> /\ raised = NoExc /\ status = "running"

Init ==
    /\ func \in Commands
    /\ traces \in SeqsUpTo(Records, MaxLen)
    /\ pc = "start"
    /\ reader = "unopened"
    /\ pos = 0
    /\ count = 0
    /\ count_per_tp = EmptyDict
    /\ min_time = None
    /\ max_time = None
    /\ out = <<>>
    /\ raised = NoExc
    /\ status = "running"
    /\ FmtIdle /\ WaitIdle /\ FiltIdle

\* `with get_trace_reader(args) as reader:` left, normally or by an exception:
\* the reader is released
WithExit_leak(r) == r
WithExit(r) == "closed"

\* an exception leaves the command and reaches the try of __main__
Raise(e) == pc' = "except" /\ raised' = e

Summary == <<count, count_per_tp, min_time, max_time>>

\* get_trace_reader + entering the with block, for the command at `at`
OpenReader(at, next) ==
    /\ pc = at
    /\ \/ /\ reader' = "open"
          /\ pc' = next
          /\ UNCHANGED raised
       \/ /\ Raise(IOError("ENOENT"))
          /\ UNCHANGED reader
    /\ UNCHANGED <<func, traces, pos, Summary, out, status, fmtVars, waitVars, filtVars>>

\* list_trace, line 91: get_backtrace_formatter(args); loading the symbol
\* resolver's object file may fail
ListSetup ==
    /\ pc = "start" /\ func = "list"
    /\ \/ pc' = "list_open" /\ UNCHANGED raised
       \/ Raise(IOError("ENOENT"))
    /\ UNCHANGED <<func, traces, reader, pos, Summary, out, status, fmtVars, waitVars,
                   filtVars>>

ListOpen == OpenReader("list_open", "list_loop")

\* list_trace, lines 93-94: one record read and printed
ListIter ==
    /\ pc = "list_loop" /\ pos < Len(traces)
    /\ \/ /\ pos' = pos + 1
          /\ out' = Append(out, [kind |-> "trace", tp |-> traces[pos + 1].tp,
                                 time |-> traces[pos + 1].time])
          /\ UNCHANGED <<pc, reader, raised>>
       \/ /\ pos' = pos + 1
          /\ Raise(IOError("EPIPE"))
          /\ reader' = WithExit(reader)
          /\ UNCHANGED out
       \/ /\ Raise(IOError("EIO"))
          /\ reader' = WithExit(reader)
          /\ UNCHANGED <<pos, out>>
    /\ UNCHANGED <<func, traces, Summary, status, fmtVars, waitVars, filtVars>>

\* list_trace: the records are exhausted, the with block ends, the command returns
ListEnd ==
    /\ pc = "list_loop" /\ pos = Len(traces)
    /\ reader' = WithExit(reader)
    /\ pc' = "return"
    /\ UNCHANGED <<func, traces, pos, Summary, out, raised, status, fmtVars, waitVars,
                   filtVars>>

\* -------------------------------------------------------------- print_summary

\* count_per_tp[k] += 1 on a defaultdict(lambda: 0)
DictIncr_reset(d, k) == [x \in DOMAIN d \cup {k} |-> IF x = k THEN 1 ELSE d[x]]
DictIncr(d, k) ==
    [x \in DOMAIN d \cup {k} |-> IF x = k THEN (IF k \in DOMAIN d THEN d[k] ELSE 0) + 1
                                  ELSE d[x]]

\* lines 152-155: `if not min_time: min_time = t.time` else the smaller of the two
NextMinTime(mn, t) == IF Not(mn) THEN Some(t) ELSE Some(Min2(Val(mn), t))

\* line 157: max_time = max(max_time, t.time)
NextMaxTime(mx, t) == PyMax(mx, t)

\* sorted(S, key=name) over a set of distinct names
RECURSIVE sorted_reverse(_)
sorted_reverse(S) ==
    IF S = {} THEN <<>>
    ELSE LET m == CHOOSE x \in S : \A y \in S : ~StrLess(x, y)
         IN  <<m>> \o sorted_reverse(S \ {m})
RECURSIVE sorted(_)
sorted(S) ==
    IF S = {} THEN <<>>
    ELSE LET m == CHOOSE x \in S : \A y \in S : ~StrLess(y, x)
         IN  <<m>> \o sorted(S \ {m})

\* line 165: reduce(max, map(lambda tp: len(tp.name), count_per_tp.iterkeys()))
max_name_len(d) == CHOOSE n \in {Len(k) : k \in DOMAIN d} : \A k \in DOMAIN d : Len(k) <= n

\* lines 163-174: what print_summary prints for a non-empty trace
summary_table(c, d, mn, mx) ==
    LET w == max_name_len(d)
        names == sorted(DOMAIN d)
    IN  <<[kind |-> "collected", count |-> c, span |-> Val(mx) - Val(mn)],
          [kind |-> "title"],
          [kind |-> "header", width |-> w],
          [kind |-> "rule", width |-> w]>>
        \o [i \in 1..Len(names) |->
               [kind |-> "row", width |-> w, name |-> names[i], count |-> d[names[i]]]]
        \o <<[kind |-> "blank"]>>

NoSamples == [kind |-> "text", text |-> <<"N", "o", " ", "s", "a", "m", "p", "l", "e", "s">>]

\* lines 159-174: everything print_summary prints after the loop
summary_lines_nocheck(c, d, mn, mx) ==
    IF d = EmptyDict THEN <<[kind |-> "collected", count |-> c, span |-> 0], [kind |-> "title"]>>
    ELSE summary_table(c, d, mn, mx)
summary_lines(c, d, mn, mx) ==
    IF c = 0 THEN <<NoSamples>> ELSE summary_table(c, d, mn, mx)

SummaryOpen == pc = "start" /\ func = "summary" /\ OpenReader("start", "summary_loop")

\* lines 148-157: one record read and accumulated
SummaryIter ==
    /\ pc = "summary_loop" /\ pos < Len(traces)
    /\ \/ /\ LET t == traces[pos + 1]
             IN  /\ count' = count + 1
                 /\ count_per_tp' = DictIncr(count_per_tp, t.tp)
                 /\ min_time' = NextMinTime(min_time, t.time)
                 /\ max_time' = NextMaxTime(max_time, t.time)
          /\ pos' = pos + 1
          /\ UNCHANGED <<pc, reader, raised>>
       \/ /\ Raise(IOError("EIO"))
          /\ reader' = WithExit(reader)
          /\ UNCHANGED <<pos, Summary>>
    /\ UNCHANGED <<func, traces, out, status, fmtVars, waitVars, filtVars>>

\* the records are exhausted and the with block ends
SummaryEnd ==
    /\ pc = "summary_loop" /\ pos = Len(traces)
    /\ reader' = WithExit(reader)
    /\ pc' = "summary_report"
    /\ UNCHANGED <<func, traces, pos, Summary, out, raised, status, fmtVars, waitVars,
                   filtVars>>

\* lines 159-174: the report, written whole or cut short by a closed output
SummaryReport ==
    /\ pc = "summary_report"
    /\ LET lines == summary_lines(count, count_per_tp, min_time, max_time)
       IN  \/ /\ out' = lines
              /\ pc' = "return"
              /\ UNCHANGED raised
           \/ \E k \in 0..(Len(lines) - 1) :
                  /\ out' = SubSeq(lines, 1, k)
                  /\ Raise(IOError("EPIPE"))
    /\ UNCHANGED <<func, traces, reader, pos, Summary, status, fmtVars, waitVars, filtVars>>

\* --------------------------------------------------------------- show_profile

\* lines 115-122: the resolver, the time range and the node filter; loading the
\* resolver's object file may fail, and so may int() of --since / --until
ProfSetup ==
    /\ pc = "start" /\ func \in {"prof-wait", "prof"}
    /\ \/ pc' = "prof_open" /\ UNCHANGED raised
       \/ Raise(IOError("ENOENT"))
       \/ Raise(ValueError)
    /\ UNCHANGED <<func, traces, reader, pos, Summary, out, status, fmtVars, waitVars,
                   filtVars>>

ProfOpen == OpenReader("prof_open", "prof_print")

\* lines 125-133: prof.print_profile consumes the records and prints the tree
\* inside the with block
ProfPrint ==
    /\ pc = "prof_print"
    /\ \/ /\ pos' = Len(traces)
          /\ out' = <<[kind |-> "profile", samples_from |-> func]>>
          /\ pc' = "return"
          /\ UNCHANGED raised
       \/ /\ pos' = Len(traces)
          /\ Raise(IOError("EPIPE"))
          /\ UNCHANGED out
       \/ \E k \in 0..(Len(traces) - 1) :
              /\ pos' = k
              /\ Raise(IOError("EIO"))
              /\ UNCHANGED out
    /\ reader' = WithExit(reader)
    /\ UNCHANGED <<func, traces, Summary, status, fmtVars, waitVars, filtVars>>

\* ------------------------------------------------------- __main__, lines 217-221

\* except IOError as e: if e.errno != errno.EPIPE: raise
main_handler_swallow(e) == IF e.type = "IOError" THEN "normal" ELSE "error"
main_handler(e) ==
    IF e.type = "IOError" /\ e.errno = "EPIPE" THEN "normal" ELSE "error"

\* args.func(args) returned
MainReturn ==
    /\ pc = "return"
    /\ status' = "normal"
    /\ pc' = "exit"
    /\ UNCHANGED <<func, traces, reader, pos, Summary, out, raised, fmtVars, waitVars,
                   filtVars>>

\* args.func(args) raised
MainExcept ==
    /\ pc = "except"
    /\ status' = main_handler(raised)
    /\ pc' = "exit"
    /\ UNCHANGED <<func, traces, reader, pos, Summary, out, raised, fmtVars, waitVars,
                   filtVars>>

Next ==
    \/ ListSetup \/ ListOpen \/ ListIter \/ ListEnd
    \/ SummaryOpen \/ SummaryIter \/ SummaryEnd \/ SummaryReport
    \/ ProfSetup \/ ProfOpen \/ ProfPrint
    \/ MainReturn \/ MainExcept

Spec == Init /\ [][Next]_vars

\* ------------------------------------------------------- claims: the summary

\* records among the first n that carry tracepoint tp
Occurrences(tp, n) == Cardinality({i \in 1..n : traces[i].tp = tp})

RECURSIVE SumOver(_, _)
SumOver(d, K) ==
    IF K = {} THEN 0
    ELSE LET k == CHOOSE x \in K : TRUE IN d[k] + SumOver(d, K \ {k})

TimesOf(s) == {s[i].time : i \in 1..Len(s)}
Largest(S) == CHOOSE x \in S : \A y \in S : y <= x
Smallest(S) == CHOOSE x \in S : \A y \in S : x <= y

IsRow(l) == l.kind = "row"
IsCollected(l) == l.kind = "collected"
Rows == SelectSeq(out, IsRow)
TpsOf(s) == {s[i].tp : i \in 1..Len(s)}

\* C1: for every non-empty record sequence the span printed by summary is the
\* largest timestamp minus the smallest timestamp over all records, also when a
\* record has timestamp 0.
C1_SpanIsMaxMinusMin ==
    func = "summary" =>
        \A i \in DOMAIN out :
            IsCollected(out[i]) =>
                out[i].span = Largest(TimesOf(traces)) - Smallest(TimesOf(traces))

\* C2: after any prefix of the records, count is the number of records consumed,
\* each tracepoint's counter is the number of consumed records carrying it, the
\* counters sum to count; the printed total is the length of the whole sequence.
C2_CountsMatchPrefix ==
    func = "summary" =>
        /\ count = pos
        /\ \A tp \in TpNames :
               IF tp \in DOMAIN count_per_tp
               THEN count_per_tp[tp] = Occurrences(tp, pos)
               ELSE Occurrences(tp, pos) = 0
        /\ SumOver(count_per_tp, DOMAIN count_per_tp) = count
        /\ \A i \in DOMAIN out : IsCollected(out[i]) => out[i].count = Len(traces)

C2_Witness ==
    /\ func = "summary" /\ pc = "exit" /\ status = "normal"
    /\ Len(traces) >= 3
    /\ Cardinality(DOMAIN count_per_tp) = 2
    /\ \E i \in DOMAIN out : IsCollected(out[i])

\* C4: when the source yields zero records, summary prints "No samples" and
\* returns normally: no "Collected" line, no table, no error.
C4_EmptyInputNoSamples ==
    (func = "summary" /\ traces = <<>> /\ reader = "closed"
        /\ pc \in {"return", "except", "exit"}) =>
        /\ \A i \in DOMAIN out : out[i] = NoSamples
        /\ raised = NoExc => out = <<NoSamples>>
        /\ raised \in {NoExc, IOError("EPIPE")}
        /\ pc = "exit" => status = "normal"

C4_Witness ==
    /\ func = "summary" /\ traces = <<>> /\ pc = "exit"
    /\ out = <<NoSamples>> /\ raised = NoExc /\ status = "normal"

\* C9: the table rows are in ascending order of tracepoint name, one row per
\* distinct tracepoint of the input, each with that tracepoint's count.
C9_RowsSortedByName ==
    func = "summary" =>
        /\ \A i \in 1..(Len(Rows) - 1) : StrLess(Rows[i].name, Rows[i + 1].name)
        /\ \A i \in 1..Len(Rows) : Rows[i].count = Occurrences(Rows[i].name, Len(traces))
        /\ (pc \in {"return", "exit"} /\ raised = NoExc /\ traces # <<>>) =>
               /\ {Rows[i].name : i \in 1..Len(Rows)} = TpsOf(traces)
               /\ Len(Rows) = Cardinality(TpsOf(traces))

C9_Witness ==
    /\ func = "summary" /\ pc = "exit" /\ status = "normal"
    /\ Len(Rows) = 3
    /\ traces[1].tp = <<"b">> /\ traces[2].tp = <<"a", "b">>

\* ----------------------------------------------- claims: errors and the reader

\* C5: an IOError with errno EPIPE ends the program normally; every other
\* IOError is propagated.
C5_OnlyEpipeSuppressed ==
    pc = "exit" =>
        /\ raised = NoExc => status = "normal"
        /\ raised = IOError("EPIPE") => status = "normal"
        /\ (raised.type = "IOError" /\ raised.errno # "EPIPE") => status = "error"

C5_Witness ==
    /\ pc = "exit" /\ raised = IOError("EPIPE") /\ status = "normal" /\ func = "list"
    /\ Len(out) >= 1

\* C6: in every command the reader is open whenever a record is consumed, and it
\* is released before the command returns or an error leaves it.
C6_ReaderScoped ==
    /\ [](pc \in {"return", "except", "exit"} => reader # "open")
    /\ [][pos' # pos => reader = "open"]_vars

C6_Witness ==
    /\ pc = "except" /\ raised = IOError("EPIPE") /\ reader = "closed"
    /\ func = "list" /\ pos >= 2

\* ------------------------------------------------------------ symbol printing

\* the addresses looked up
Addrs == {0, 10, 255, 4096}

\* function names the object file may hold for an address (<<>>: none)
NameMain ==
    <<"m", "a", "i", "n">>
NameWait ==
    <<"d", "o", "_", "w", "a", "i", "t", "_", "u", "n", "t", "i", "l">>
NameWaitA ==
    <<"d", "o", "_", "w", "a", "i", "t", "_", "u", "n", "t", "i", "l", "<", "a", ">">>
NameWaitB ==
    <<"d", "o", "_", "w", "a", "i", "t", "_", "u", "n", "t", "i", "l", "<", "b", ">">>
NameVoidWaitA ==
    <<"v", "o", "i", "d", " ", "s", "c", "h", "e", "d", ":", ":", "t", "h", "r", "e",
      "a", "d", ":", ":", "d", "o", "_", "w", "a", "i", "t", "_", "u", "n", "t", "i",
      "l", "<", "a", ">">>
NameVoidWaitB ==
    <<"v", "o", "i", "d", " ", "s", "c", "h", "e", "d", ":", ":", "t", "h", "r", "e",
      "a", "d", ":", ":", "d", "o", "_", "w", "a", "i", "t", "_", "u", "n", "t", "i",
      "l", "<", "b", ">">>
NameMyWaitA ==
    <<"m", "y", "_", "d", "o", "_", "w", "a", "i", "t", "_", "u", "n", "t", "i", "l",
      "<", "a", ">">>

Names == {<<>>, NameMain, NameWait, NameWaitA, NameWaitB, NameVoidWaitA, NameVoidWaitB,
          NameMyWaitA}

FileName == <<"a", ".", "c", "c">>

\* what debug.SymbolResolver answers for one address
SrcAddrs(a) == [name : Names, filename : {FileName}, line : {14}, addr : {a}]

\* debug.DummyResolver (--no-resolve): the address alone, no name
DummyResolver(a) == [name |-> <<>>, filename |-> <<>>, line |-> 0, addr |-> a]

VoidWaitPrefix ==
    <<"v", "o", "i", "d", " ", "s", "c", "h", "e", "d", ":", ":", "t", "h", "r", "e",
      "a", "d", ":", ":", "d", "o", "_", "w", "a", "i", "t", "_", "u", "n", "t", "i",
      "l", "<">>
WaitPrefix ==
    <<"d", "o", "_", "w", "a", "i", "t", "_", "u", "n", "t", "i", "l", "<">>
SchedThreadWait ==
    <<"s", "c", "h", "e", "d", ":", ":", "t", "h", "r", "e", "a", "d", ":", ":", "d",
      "o", "_", "w", "a", "i", "t", "_", "u", "n", "t", "i", "l">>

\* p occurs somewhere in s
Contains(s, p) == \E i \in 0..(Len(s) - Len(p)) : SubSeq(s, i + 1, i + Len(p)) = p

\* BeautifyingResolver.__call__ on the delegate's answer, lines 62-68
BeautifyingResolver_substring(src) ==
    IF src.name # <<>>
    THEN IF Contains(src.name, VoidWaitPrefix) THEN [src EXCEPT !.name = SchedThreadWait]
         ELSE IF Contains(src.name, WaitPrefix) THEN [src EXCEPT !.name = NameWait]
         ELSE src
    ELSE src
BeautifyingResolver(src) ==
    IF src.name # <<>>
    THEN IF StartsWith(src.name, VoidWaitPrefix) THEN [src EXCEPT !.name = SchedThreadWait]
         ELSE IF StartsWith(src.name, WaitPrefix) THEN [src EXCEPT !.name = NameWait]
         ELSE src
    ELSE src

\* the resolver symbol_resolver(args) returns, applied to an address, lines 70-81
symbol_resolver(a) ==
    IF fargs.no_resolve THEN DummyResolver(a) ELSE BeautifyingResolver(symtab[a])

\* src_addr_formatter.__call__, lines 25-40
src_addr_formatter_noraw(src) ==
    src.name
        \o (IF fargs.show_file_name THEN <<" ">> \o src.filename ELSE <<>>)
        \o (IF fargs.show_line_number THEN <<":">> \o Dec(src.line) ELSE <<>>)
        \o (IF fargs.show_address THEN <<" ", "@", " ", "0", "x">> \o Hex(src.addr) ELSE <<>>)
src_addr_formatter(src) ==
    IF src.name = <<>> THEN <<"0", "x">> \o Hex(src.addr)
    ELSE src.name
            \o (IF fargs.show_file_name THEN <<" ">> \o src.filename ELSE <<>>)
            \o (IF fargs.show_line_number THEN <<":">> \o Dec(src.line) ELSE <<>>)
            \o (IF fargs.show_address
                THEN <<" ", "@", " ", "0", "x">> \o Hex(src.addr) ELSE <<>>)

InitFormat ==
    /\ fargs \in [no_resolve : BOOLEAN, show_file_name : BOOLEAN,
                  show_line_number : BOOLEAN, show_address : BOOLEAN]
    /\ \E a \in Addrs, b \in Addrs :
           /\ a < b
           /\ \E sa \in SrcAddrs(a), sb \in SrcAddrs(b) :
                  symtab = [x \in {a, b} |-> IF x = a THEN sa ELSE sb]
    /\ resolved = EmptyDict
    /\ text = EmptyDict
    /\ MainIdle /\ WaitIdle /\ FiltIdle

\* show_profile hands symbol_resolver(args) to print_profile (line 126), which
\* looks an address up while building the tree
Resolve ==
    \E a \in DOMAIN symtab \ DOMAIN resolved :
        /\ resolved' = [x \in DOMAIN resolved \cup {a} |->
                            IF x = a THEN symbol_resolver(a) ELSE resolved[x]]
        /\ UNCHANGED <<fargs, symtab, text, mainVars, waitVars, filtVars>>

\* symbol_printer.__call__, lines 18-19: formatter(resolver(addr))
SymbolPrinter ==
    \E a \in DOMAIN symtab \ DOMAIN text :
        /\ text' = [x \in DOMAIN text \cup {a} |->
                        IF x = a THEN src_addr_formatter(symbol_resolver(a)) ELSE text[x]]
        /\ UNCHANGED <<fargs, symtab, resolved, mainVars, waitVars, filtVars>>

NextFormat == Resolve \/ SymbolPrinter

SpecFormat == InitFormat /\ [][NextFormat]_vars

\* value of a hexadecimal digit
HexDigitValue(c) == (CHOOSE i \in 1..16 : HexDigits[i] = c) - 1

RECURSIVE HexValue(_)
HexValue(s) == IF s = <<>> THEN 0 ELSE 16 * HexValue(SubSeq(s, 1, Len(s) - 1)) + HexDigitValue(s[Len(s)])

\* s is exactly '0x' followed by the hexadecimal digits of a, no padding
IsRawAddress(s, a) ==
    /\ Len(s) >= 3
    /\ s[1] = "0" /\ s[2] = "x"
    /\ LET digits == SubSeq(s, 3, Len(s))
       IN  /\ \A i \in 1..Len(digits) : \E j \in 1..16 : HexDigits[j] = digits[i]
           /\ HexValue(digits) = a
           /\ Len(digits) > 1 => digits[1] # "0"

\* the object file has no name for address a, or symbols are not resolved at all
Unresolved(a) == fargs.no_resolve \/ symtab[a].name = <<>>

\* C7: an address whose resolved location has an empty name is rendered as
\* exactly '0x<hex>' of the address, whatever the show-file-name,
\* show-line-number and show-address options are.
C7_UnresolvedIsRawAddress ==
    \A a \in DOMAIN text : Unresolved(a) => IsRawAddress(text[a], a)

C7_Witness ==
    /\ 255 \in DOMAIN text /\ Unresolved(255)
    /\ fargs.show_address /\ fargs.show_file_name /\ fargs.show_line_number
    /\ text[255] = <<"0", "x", "f", "f">>

HasWaitPrefix(n) == StartsWith(n, VoidWaitPrefix) \/ StartsWith(n, WaitPrefix)

\* C8, as claimed: two addresses whose resolved names differ are never given the
\* same name by the resolver that show_profile hands to tree building.
C8_DistinctNamesStayDistinct ==
    ~fargs.no_resolve =>
        \A a \in DOMAIN resolved, b \in DOMAIN resolved :
            symtab[a].name # symtab[b].name => resolved[a].name # resolved[b].name

\* C8, amended: the resolver handed to tree building rewrites a name starting
\* with 'void sched::thread::do_wait_until<' to 'sched::thread::do_wait_until'
\* and one starting with 'do_wait_until<' to 'do_wait_until', and leaves every
\* other name as it is; two different names get the same key only if at least
\* one of them starts with one of the two prefixes.
C8_OnlyWaitTemplatesMerge ==
    ~fargs.no_resolve =>
        /\ \A a \in DOMAIN resolved :
               /\ StartsWith(symtab[a].name, VoidWaitPrefix) =>
                      resolved[a].name = SchedThreadWait
               /\ StartsWith(symtab[a].name, WaitPrefix) => resolved[a].name = NameWait
               /\ ~HasWaitPrefix(symtab[a].name) => resolved[a].name = symtab[a].name
        /\ \A a \in DOMAIN resolved, b \in DOMAIN resolved :
               (symtab[a].name # symtab[b].name /\ resolved[a].name = resolved[b].name)
                   => (HasWaitPrefix(symtab[a].name) \/ HasWaitPrefix(symtab[b].name))

C8_Witness ==
    /\ ~fargs.no_resolve
    /\ \E a \in DOMAIN resolved, b \in DOMAIN resolved :
           /\ symtab[a].name = NameWaitA /\ symtab[b].name = NameWaitB
           /\ resolved[a].name = resolved[b].name

\* --------------------------------------------------------------- wait profile

SchedWait == <<"s", "c", "h", "e", "d", "_", "w", "a", "i", "t">>
SchedWaitRet ==
    <<"s", "c", "h", "e", "d", "_", "w", "a", "i", "t", "_", "r", "e", "t">>
SchedWaitErr ==
    <<"s", "c", "h", "e", "d", "_", "w", "a", "i", "t", "_", "e", "r", "r">>

WaitNames == {SchedWait, SchedWaitRet, SchedWaitErr}
Threads == {1, 2}

\* get_wait_profile, line 107: the begin and the end tracepoint handed to
\* prof.get_duration_profile
wait_entry_name == SchedWait
wait_exit_name_err == SchedWaitErr
wait_exit_name == SchedWaitRet

\* the record sequences: sorted by time, the i-th record at time i
WaitTraces ==
    {[i \in 1..Len(s) |-> [name |-> s[i].name, thread |-> s[i].thread, time |-> i]] :
        s \in SeqsUpTo([name : WaitNames, thread : Threads], MaxWaitLen)}

InitWait ==
    /\ wtraces \in WaitTraces
    /\ wpos = 0
    /\ entries = [th \in Threads |-> <<>>]
    /\ samples = <<>>
    /\ last = [seen |-> FALSE]
    /\ MainIdle /\ FmtIdle /\ FiltIdle

\* prof.get_duration_profile(traces, entry, exit) on one record: a begin event is
\* remembered for its thread; an end event closes the thread's innermost open
\* begin and yields the interval, or is dropped when the thread has none
get_duration_profile_step(t, entry, exit) ==
    LET open == entries[t.thread]
    IN  IF t.name = entry
        THEN /\ entries' = [entries EXCEPT ![t.thread] = Append(open, t)]
             /\ UNCHANGED samples
             /\ last' = [seen |-> TRUE, name |-> t.name, thread |-> t.thread,
                         had_open |-> open # <<>>, closed |-> FALSE]
        ELSE IF t.name = exit /\ open # <<>>
        THEN LET begin == open[Len(open)]
             IN  /\ entries' = [entries EXCEPT ![t.thread] = SubSeq(open, 1, Len(open) - 1)]
                 /\ samples' = Append(samples,
                                      [thread |-> begin.thread, start |-> begin.time,
                                       duration |-> t.time - begin.time])
                 /\ last' = [seen |-> TRUE, name |-> t.name, thread |-> t.thread,
                             had_open |-> TRUE, closed |-> TRUE]
        ELSE /\ UNCHANGED <<entries, samples>>
             /\ last' = [seen |-> TRUE, name |-> t.name, thread |-> t.thread,
                         had_open |-> open # <<>>, closed |-> FALSE]

\* get_wait_profile(traces) consumes the next record
WaitStep ==
    /\ wpos < Len(wtraces)
    /\ get_duration_profile_step(wtraces[wpos + 1], wait_entry_name, wait_exit_name)
    /\ wpos' = wpos + 1
    /\ UNCHANGED <<wtraces, mainVars, fmtVars, filtVars>>

NextWait == WaitStep

SpecWait == InitWait /\ [][NextWait]_vars

Suffixed(base, suffix) == base \o suffix

Text0 == <<"0">>
Text3 == <<"3">>
Text2ns == <<"2", "n", "s">>
Text1us == <<"1", "u", "s">>
DurationTexts == {Text0, Text3, Text2ns, Text1us}

ResidentTimes == {0, 2, 3, 999, 1000}

DecDigitValue(c) == (CHOOSE i \in 1..10 : HexDigits[i] = c) - 1

RECURSIVE DecValue(_)
DecValue(s) == IF s = <<>> THEN 0 ELSE 10 * DecValue(SubSeq(s, 1, Len(s) - 1)) + DecDigitValue(s[Len(s)])

\* prof.parse_time_as_nanos: a number with an optional unit, nanoseconds by default
parse_time_as_nanos(s) ==
    LET number == SubSeq(s, 1, Len(s) - 2)
    IN  IF EndsWith(s, <<"n", "s">>) THEN DecValue(number)
        ELSE IF EndsWith(s, <<"u", "s">>) THEN DecValue(number) * 1000
        ELSE IF EndsWith(s, <<"m", "s">>) THEN DecValue(number) * 1000000
        ELSE DecValue(s)

\* line 120: lambda node: node.resident_time >= min_duration
node_filter_strict(resident_time, threshold) == resident_time > threshold
node_filter_accepts(resident_time, threshold) == resident_time >= threshold

InitFilter ==
    /\ min_duration \in DurationTexts \cup {<<>>}
    /\ nodes \in SeqsUpTo(ResidentTimes, MaxNodes)
    /\ node_filter = [state |-> "unset"]
    /\ npos = 0
    /\ kept = <<>>
    /\ MainIdle /\ FmtIdle /\ WaitIdle

\* show_profile, lines 118-122: the node filter built from --min-duration
BuildNodeFilter ==
    /\ node_filter.state = "unset"
    /\ node_filter' = IF min_duration # <<>>
                         THEN [state |-> "filter",
                               min_duration |-> parse_time_as_nanos(min_duration)]
                         ELSE [state |-> "none"]
    /\ UNCHANGED <<min_duration, nodes, npos, kept, mainVars, fmtVars, waitVars>>

\* prof.print_profile offers a node to node_filter, when there is a filter
OfferNode ==
    /\ node_filter.state # "unset"
    /\ npos < Len(nodes)
    /\ kept' = Append(kept,
                      IF node_filter.state = "none" THEN TRUE
                      ELSE node_filter_accepts(nodes[npos + 1], node_filter.min_duration))
    /\ npos' = npos + 1
    /\ UNCHANGED <<min_duration, node_filter, nodes, mainVars, fmtVars, waitVars>>

NextFilter == BuildNodeFilter \/ OfferNode

SpecFilter == InitFilter /\ [][NextFilter]_vars

\* the threshold each text of --min-duration stands for [ns]
ThresholdOf(s) ==
    CASE s = Text0 -> 0
      [] s = Text3 -> 3
      [] s = Text2ns -> 2
      [] s = Text1us -> 1000

\* C10: the filter built from --min-duration keeps a node if and only if its
\* resident_time is at least the threshold; without --min-duration there is no
\* filter and every node stays; a threshold of 0 rejects no node.
C10_FilterKeepsAtLeastThreshold ==
    /\ node_filter.state = "none" => min_duration = <<>>
    /\ node_filter.state = "filter" => min_duration # <<>>
    /\ \A i \in 1..Len(kept) :
           /\ min_duration = <<>> => kept[i]
           /\ min_duration # <<>> => (kept[i] <=> nodes[i] >= ThresholdOf(min_duration))
           /\ min_duration = Text0 => kept[i]

C10_Witness ==
    /\ min_duration = Text1us
    /\ Len(kept) = 2
    /\ nodes[1] = 1000 /\ kept[1]
    /\ nodes[2] = 999 /\ ~kept[2]

====
